---- MODULE Spec2Model ----
(***************************************************************************)
(* aiohttp_oauthlib.OAuth2Session: the token lifecycle and the request     *)
(* interception pipeline.  One session object is shared by a small number  *)
(* of concurrent callers (asyncio tasks).  Every coroutine is cut at its   *)
(* awaits: the network call (aiohttp's ClientSession._request together     *)
(* with reading the body) and the awaited token_updater.  Everything       *)
(* between two awaits is one atomic step, as it is on the event loop.      *)
(* Spec has one caller and every configuration; SpecConc has two callers   *)
(* of request; SpecAcc drives the accessors; SpecAuth the state round trip.*)
(***************************************************************************)
EXTENDS Integers, Sequences, FiniteSets, TLC

\* ------------------------------------------------------------------ bounds
MaxTime == 3
MaxRegs == 2

\* ------------------------------------------------------------------ values
None == "None"
Callable == "<callable>"
Deleted == "<deleted>"

AccessTokens == {"a1", "a2"}
RefreshTokens == {"r1"}
StateStrings == {"s1", "s2"}
ExpiresIn == {0}
Urls == {"", "http://", "https://"}
HookTypes == {"access_token_response", "refresh_token_response", "protected_request"}
Hooks == {"h1", "h2"}

EmptyToken == [k \in {} |-> None]

\* dict.get(key) with the default None
Get(tok, k) == IF k \in DOMAIN tok THEN tok[k] ELSE None

\* truthiness of a Python str-or-None / dict
Truthy(v) == v # None /\ v # ""
NonEmpty(tok) == DOMAIN tok # {}

\* a token dict built from optional parts (None leaves the key out)
MkToken(at, rt, exp) ==
    [k \in ((IF at = None THEN {} ELSE {"access_token"})
            \cup (IF rt = None THEN {} ELSE {"refresh_token"})
            \cup (IF exp = 0 THEN {} ELSE {"expires_at"})) |->
        CASE k = "access_token" -> at
          [] k = "refresh_token" -> rt
          [] OTHER -> exp]

\* dict item assignment tok[k] = v
Put(tok, k, v) == [x \in DOMAIN tok \cup {k} |-> IF x = k THEN v ELSE tok[x]]

\* oauthlib.oauth2.is_secure_transport as used by the session, with the
\* OAUTHLIB_INSECURE_TRANSPORT override unset
is_secure_transport(url) == url = "https://"

\* ------------------------------------------------------------------ state
VARIABLES
    auto_refresh_url,   \* self.auto_refresh_url
    token_updater,      \* self.token_updater is set
    state,              \* self.state: a string or a callable
    _state,             \* self._state: None, a string, or the callable itself
    token,              \* self._client.token
    access_token,       \* self._client.access_token
    expires_at,         \* self._client._expires_at (0 stands for None)
    code,               \* self._client.code
    now,                \* time.time()
    auth_state,         \* the state last returned by authorization_url
    tasks,              \* the coroutines in flight, one record per caller
    compliance_hook,    \* self.compliance_hook: hook point -> set of hooks
    registered,         \* history: the registrations made, in order
    client_kind,        \* the class of self._client
    client_id,          \* self._client.client_id
    constructed         \* history: the constructor's arguments and its outcome

vars == <<auto_refresh_url, token_updater, state, _state, token, access_token,
          expires_at, code, now, auth_state, tasks, compliance_hook, registered,
          client_kind, client_id, constructed>>

\* what construction and hook registration set
config == <<auto_refresh_url, token_updater, state, compliance_hook, registered,
            client_kind, client_id, constructed>>
client == <<token, access_token, expires_at, code>>

\* ------------------------------------------------------------ grant client
\* oauthlib Client._populate_attributes, as the token setter calls it: only the
\* keys present in the dict overwrite the client's attributes.
populate_access_token(tok) ==
    IF "access_token" \in DOMAIN tok THEN tok["access_token"] ELSE access_token

populate_expires_at(tok) ==
    IF "expires_at" \in DOMAIN tok THEN tok["expires_at"] ELSE expires_at

\* self._client.add_token(url, ...): the outcome for the client's attributes
add_token(url) ==
    IF ~is_secure_transport(url) THEN "InsecureTransportError"
    ELSE IF access_token = Deleted THEN "AttributeError"
    ELSE IF ~(Truthy(access_token) \/ Truthy(Get(token, "access_token")))
         THEN "ValueError"
    ELSE IF expires_at # 0 /\ expires_at < now THEN "TokenExpiredError"
    ELSE "ok"

\* what the token endpoint may answer: a JSON token, with or without
\* refresh_token and expires_in
MkResponse(at, rt, has_ein, ein) ==
    [k \in ({"access_token"}
            \cup (IF rt = None THEN {} ELSE {"refresh_token"})
            \cup (IF has_ein THEN {"expires_in"} ELSE {})) |->
        CASE k = "access_token" -> at
          [] k = "refresh_token" -> rt
          [] OTHER -> ein]

TokenResponses ==
    {MkResponse(at, rt, h, e) : at \in AccessTokens, rt \in {None} \cup RefreshTokens,
                                h \in BOOLEAN, e \in ExpiresIn}

\* the outcomes of a network call that do not deliver a token
Failures == {"TimeoutError", "ClientError"}

\* self._client.parse_request_body_response(text): expires_in becomes expires_at
parse_request_body_response(resp) ==
    MkToken(resp["access_token"], Get(resp, "refresh_token"),
            IF "expires_in" \in DOMAIN resp THEN now + resp["expires_in"] ELSE 0)

\* ------------------------------------------------------------------ hooks
\* the orders in which iterating over a set of hooks may yield them
Orders(S) ==
    {o \in [1..Cardinality(S) -> S] : \A h \in S : \E i \in 1..Cardinality(S) : o[i] = h}

\* a compliance hook: it returns its input with its own marker appended
hook(h, hook_data) == Append(hook_data, h)

\* _invoke_hooks that hands every hook the caller's data
_invoke_hooks_unthreaded(order, hook_data) ==
    IF order = <<>> THEN hook_data ELSE hook(order[Len(order)], hook_data)

\* _invoke_hooks (lines 565-572), the set being iterated in the order given:
\* data[i] is hook_data after the i-th pass of the loop
_invoke_hooks(order, hook_data) ==
    LET data[i \in 0..Len(order)] ==
            IF i = 0 THEN hook_data ELSE hook(order[i], data[i - 1])
    IN data[Len(order)]

\* ------------------------------------------------------------------ tasks
IdleTask ==
    [op |-> None, pc |-> "idle", url |-> "", withhold |-> FALSE, caller |-> None,
     rt |-> None, events |-> <<>>, attached |-> None, err |-> None,
     ret |-> EmptyToken, expired |-> FALSE, echo |-> FALSE,
     tok0 |-> EmptyToken, arg_rt |-> None, resp |-> EmptyToken,
     body |-> <<>>, order |-> <<>>, resp_hooks |-> <<>>,
     hook_arg |-> <<>>, hooks0 |-> [h \in HookTypes |-> {}],
     username |-> None, password |-> None, msg |-> None,
     depth |-> 0, inner_body |-> <<>>, inner_attached |-> None,
     auth |-> <<>>, include_client_id |-> None, client_id |-> None,
     client_secret |-> None, client_id0 |-> None,
     req_auth |-> <<>>, req_include_client_id |-> None, req_client_secret |-> None]

Free(t) == tasks[t].pc \in {"idle", "done"}

\* a call begins: its arguments, and the token held when it is made
Call(op, url, withhold) ==
    [IdleTask EXCEPT !.op = op, !.url = url, !.withhold = withhold, !.tok0 = token]

Raise(rec, e) == [rec EXCEPT !.pc = "done", !.err = e]

\* a refresh call that does not withhold the token
withhold_token_unset == FALSE

\* the withhold_token argument of the refresh call (line 459)
withhold_token == TRUE

\* self.post(token_url, ..., withhold_token=...) of refresh_token (lines 452-461)
\* going through _request (lines 490-546) up to the transport.  A refresh started
\* from inside this call would go through this call again with the same token,
\* and so on until the interpreter raises RecursionError.
refresh_post(rec, token_url, withhold) ==
    IF ~is_secure_transport(token_url) THEN Raise(rec, "InsecureTransportError")
    ELSE IF NonEmpty(token) /\ ~withhold THEN
        LET rec1 == [rec EXCEPT !.inner_body = _invoke_hooks(rec.order, @)]
            r == add_token(token_url) IN
        IF r = "ok"
        THEN [rec1 EXCEPT !.pc = "refresh_wait", !.inner_attached = access_token,
                          !.events = Append(@, "refresh")]
        ELSE IF r = "TokenExpiredError" /\ Truthy(auto_refresh_url)
             THEN Raise([rec1 EXCEPT !.depth = @ + 1], "RecursionError")
        ELSE Raise(rec1, r)
    ELSE [rec EXCEPT !.pc = "refresh_wait", !.events = Append(@, "refresh")]

\* refresh_token up to its network call (lines 427-461)
refresh_token_begin(rec, token_url, refresh_token, caller) ==
    IF ~Truthy(token_url) THEN Raise(rec, "ValueError")
    ELSE IF ~is_secure_transport(token_url) THEN Raise(rec, "InsecureTransportError")
    ELSE refresh_post([rec EXCEPT !.caller = caller,
                                  !.rt = IF Truthy(refresh_token) THEN refresh_token
                                         ELSE Get(token, "refresh_token"),
                                  !.depth = @ + 1],
                      token_url, withhold_token)

\* the forward to aiohttp's ClientSession._request (line 546)
forward(rec, att) ==
    [rec EXCEPT !.pc = "transport", !.events = Append(@, "forward"), !.attached = att]

\* _request that stops after the first protected_request hook
protected_request_first(rec) ==
    [rec EXCEPT !.body = IF rec.order = <<>> THEN rec.body
                         ELSE hook(Head(rec.order), rec.body)]

\* the protected_request hooks applied to the request (lines 494-499); the body
\* stands for (url, headers, data) and collects the markers the hooks leave
protected_request(rec) == [rec EXCEPT !.body = _invoke_hooks(rec.order, rec.body)]

\* _request that sends the request unauthenticated when the token has expired
\* and there is no refresh endpoint
request_begin_forward_expired(rec) ==
    IF ~is_secure_transport(rec.url) THEN Raise(rec, "InsecureTransportError")
    ELSE IF NonEmpty(token) /\ ~rec.withhold THEN
        LET rec1 == protected_request(rec)
            r == add_token(rec.url) IN
        IF r = "ok" THEN forward(rec1, access_token)
        ELSE IF r = "TokenExpiredError" THEN
            LET rec2 == [rec1 EXCEPT !.expired = TRUE] IN
            IF Truthy(auto_refresh_url)
            THEN refresh_token_begin(rec2, auto_refresh_url, None, "request")
            ELSE forward(rec2, None)
        ELSE Raise(rec1, r)
    ELSE forward(rec, None)

\* _request that runs the protected_request hooks on every request
request_begin_always_hooks(rec) ==
    IF ~is_secure_transport(rec.url) THEN Raise(rec, "InsecureTransportError")
    ELSE IF NonEmpty(token) /\ ~rec.withhold THEN
        LET rec1 == protected_request(rec)
            r == add_token(rec.url) IN
        IF r = "ok" THEN forward(rec1, access_token)
        ELSE IF r = "TokenExpiredError" THEN
            LET rec2 == [rec1 EXCEPT !.expired = TRUE] IN
            IF Truthy(auto_refresh_url)
            THEN refresh_token_begin(rec2, auto_refresh_url, None, "request")
            ELSE Raise(rec2, "TokenExpiredError")
        ELSE Raise(rec1, r)
    ELSE forward(protected_request(rec), None)

\* _request up to its first await (lines 490-546)
request_begin(rec) ==
    IF ~is_secure_transport(rec.url) THEN Raise(rec, "InsecureTransportError")
    ELSE IF NonEmpty(token) /\ ~rec.withhold THEN
        LET rec1 == protected_request(rec)
            r == add_token(rec.url) IN
        IF r = "ok" THEN forward(rec1, access_token)
        ELSE IF r = "TokenExpiredError" THEN
            LET rec2 == [rec1 EXCEPT !.expired = TRUE] IN
            IF Truthy(auto_refresh_url)
            THEN refresh_token_begin(rec2, auto_refresh_url, None, "request")
            ELSE Raise(rec2, "TokenExpiredError")
        ELSE Raise(rec1, r)
    ELSE forward(rec, None)

\* session.request(method, url, withhold_token=...)
Request(t, url, withhold) ==
    /\ Free(t)
    /\ \E order \in Orders(compliance_hook["protected_request"]) :
          tasks' = [tasks EXCEPT ![t] =
              request_begin([Call("request", url, withhold) EXCEPT !.order = order])]
    /\ UNCHANGED <<config, _state, client, now, auth_state>>

\* refresh_token that clears the token before its network call, as fetch_token does
RefreshToken_clearing(t, url, rt) ==
    /\ Free(t)
    /\ tasks' = [tasks EXCEPT ![t] =
          refresh_token_begin([Call("refresh_token", url, FALSE) EXCEPT !.arg_rt = rt],
                              url, rt, "direct")]
    /\ token' = EmptyToken
    /\ UNCHANGED <<config, _state, access_token, expires_at, code, now, auth_state>>

\* session.refresh_token(token_url, refresh_token=...) called by the application
RefreshToken(t, url, rt) ==
    /\ Free(t)
    /\ tasks' = [tasks EXCEPT ![t] =
          refresh_token_begin([Call("refresh_token", url, FALSE) EXCEPT !.arg_rt = rt],
                              url, rt, "direct")]
    /\ UNCHANGED <<config, _state, client, now, auth_state>>

\* refresh_token that stores the parsed token as it is
refreshed_token_as_parsed(resp, rt) == parse_request_body_response(resp)

\* the token stored by refresh_token (lines 471-475)
refreshed_token(resp, rt) ==
    LET parsed == parse_request_body_response(resp) IN
    IF "refresh_token" \notin DOMAIN parsed THEN Put(parsed, "refresh_token", rt)
    ELSE parsed

\* _request that starts the token_updater without awaiting it
after_refresh_unawaited(rec, tok) ==
    IF rec.caller = "direct" THEN [rec EXCEPT !.pc = "done", !.ret = tok]
    ELSE IF token_updater
         THEN forward([rec EXCEPT !.ret = tok, !.events = Append(@, "updater")],
                      Get(tok, "access_token"))
         ELSE [Raise(rec, "TokenUpdated") EXCEPT !.ret = tok]

\* _request that retries with the new token when there is no token_updater
after_refresh_retry(rec, tok) ==
    IF rec.caller = "direct" THEN [rec EXCEPT !.pc = "done", !.ret = tok]
    ELSE IF token_updater
         THEN [rec EXCEPT !.pc = "updater_wait", !.ret = tok,
                          !.events = Append(@, "updater")]
         ELSE forward([rec EXCEPT !.ret = tok], Get(tok, "access_token"))

\* _request that never calls the token_updater
after_refresh_silent(rec, tok) ==
    IF rec.caller = "direct" THEN [rec EXCEPT !.pc = "done", !.ret = tok]
    ELSE IF token_updater
         THEN forward([rec EXCEPT !.ret = tok], Get(tok, "access_token"))
         ELSE [Raise(rec, "TokenUpdated") EXCEPT !.ret = tok]

\* after refresh_token returned into _request (lines 530-539)
after_refresh(rec, tok) ==
    IF rec.caller = "direct" THEN [rec EXCEPT !.pc = "done", !.ret = tok]
    ELSE IF token_updater
         THEN [rec EXCEPT !.pc = "updater_wait", !.ret = tok,
                          !.events = Append(@, "updater")]
         ELSE [Raise(rec, "TokenUpdated") EXCEPT !.ret = tok]

\* refresh_token that keeps a token another call stored in the meantime
RefreshResponse_first_wins(t, resp) ==
    /\ tasks[t].pc = "refresh_wait"
    /\ LET tok == refreshed_token(resp, tasks[t].rt)
           kept == token # tasks[t].tok0 IN
        /\ token' = (IF kept THEN token ELSE tok)
        /\ access_token' = (IF kept THEN access_token ELSE populate_access_token(tok))
        /\ expires_at' = (IF kept THEN expires_at
                          ELSE populate_expires_at(parse_request_body_response(resp)))
        /\ \E order \in Orders(compliance_hook["refresh_token_response"]) :
              tasks' = [tasks EXCEPT ![t] =
                  after_refresh([tasks[t] EXCEPT !.resp = resp,
                                     !.resp_hooks = _invoke_hooks(order, <<>>)], tok)]
    /\ UNCHANGED <<config, _state, code, now, auth_state>>

\* the refresh call's response arrives and parses (lines 461-475, 527-539)
RefreshResponse(t, resp) ==
    /\ tasks[t].pc = "refresh_wait"
    /\ LET tok == refreshed_token(resp, tasks[t].rt) IN
        /\ token' = tok
        /\ access_token' = populate_access_token(tok)
        /\ expires_at' = populate_expires_at(parse_request_body_response(resp))
        /\ \E order \in Orders(compliance_hook["refresh_token_response"]) :
              tasks' = [tasks EXCEPT ![t] =
                  after_refresh([tasks[t] EXCEPT !.resp = resp,
                                     !.resp_hooks = _invoke_hooks(order, <<>>)], tok)]
    /\ UNCHANGED <<config, _state, code, now, auth_state>>

\* _request that sends the request without a token when its refresh has failed
RefreshFailure_forward(t, e) ==
    /\ tasks[t].pc = "refresh_wait"
    /\ tasks' = [tasks EXCEPT ![t] =
          IF tasks[t].caller = "request" THEN forward(tasks[t], None)
          ELSE Raise(tasks[t], e)]
    /\ UNCHANGED <<config, _state, client, now, auth_state>>

\* the refresh call times out or fails, or its body does not parse
RefreshFailure(t, e) ==
    /\ tasks[t].pc = "refresh_wait"
    /\ tasks' = [tasks EXCEPT ![t] = Raise(tasks[t], e)]
    /\ UNCHANGED <<config, _state, client, now, auth_state>>

\* _request that refreshes again when the new token is signalled expired
after_updater_again(rec) ==
    LET rec2 == [rec EXCEPT !.events = Append(@, "updated")]
        r == add_token(rec.url) IN
    IF r = "ok" THEN forward(rec2, access_token)
    ELSE IF r = "TokenExpiredError"
         THEN refresh_token_begin(rec2, auto_refresh_url, None, "request")
    ELSE Raise(rec2, r)

\* the awaited token_updater returns; the token is attached again (line 535)
after_updater(rec) ==
    LET rec2 == [rec EXCEPT !.events = Append(@, "updated")]
        r == add_token(rec.url) IN
    IF r = "ok" THEN forward(rec2, access_token) ELSE Raise(rec2, r)

UpdaterReturn(t) ==
    /\ tasks[t].pc = "updater_wait"
    /\ tasks' = [tasks EXCEPT ![t] = after_updater(tasks[t])]
    /\ UNCHANGED <<config, _state, client, now, auth_state>>

\* the awaited token_updater raises
UpdaterFailure(t) ==
    /\ tasks[t].pc = "updater_wait"
    /\ tasks' = [tasks EXCEPT ![t] = Raise(tasks[t], "UpdaterError")]
    /\ UNCHANGED <<config, _state, client, now, auth_state>>

\* aiohttp answers the forwarded request, or it times out or fails
TransportReturn(t, e) ==
    /\ tasks[t].pc = "transport"
    /\ tasks' = [tasks EXCEPT ![t] = Raise(tasks[t], e)]
    /\ UNCHANGED <<config, _state, client, now, auth_state>>

\* time passes
Tick ==
    /\ now < MaxTime
    /\ now' = now + 1
    /\ UNCHANGED <<config, _state, client, auth_state, tasks>>

\* ------------------------------------------------------------- fetch_token
\* self._client.parse_request_uri_response(authorization_response, state=self._state)
\* (lines 261-268): the outcome, given the state the callback URL carries
parse_request_uri_response(echo) ==
    IF client_kind # "WebApplicationClient" THEN "NotImplementedError"
    ELSE IF Truthy(_state) /\ echo # _state THEN "MismatchingStateError" ELSE "ok"

\* the messages of the two ValueErrors of lines 288-298
MsgBoth == "LegacyApplicationClient requires both the username and password parameters."
MsgPassword == "The required paramter username was supplied, but password was not."

\* the check of username and password (lines 288-298): None, or the message of
\* the ValueError raised
legacy_check(username, password) ==
    IF client_kind # "LegacyApplicationClient" THEN None
    ELSE IF username = None THEN MsgBoth
    ELSE IF password = None THEN MsgPassword
    ELSE None

\* the ValueError raised for a missing code (lines 271-274)
MsgCode == "Please supply either code or authorization_response parameters."

\* whether the code is looked up on the client and found missing (lines 269-274)
code_missing(code_arg, authorization_response) ==
    /\ ~Truthy(code_arg) /\ authorization_response = None
    /\ client_kind = "WebApplicationClient"
    /\ ~Truthy(code)

\* fetch_token that leaves the transport check to the transport
fetch_token_begin_unchecked(rec, code_arg, authorization_response, method) ==
    IF ~Truthy(code_arg) /\ authorization_response # None
       /\ parse_request_uri_response(authorization_response) # "ok"
    THEN Raise(rec, parse_request_uri_response(authorization_response))
    ELSE IF code_missing(code_arg, authorization_response)
         THEN [Raise(rec, "ValueError") EXCEPT !.msg = MsgCode]
    ELSE IF legacy_check(rec.username, rec.password) # None
         THEN [Raise(rec, "ValueError") EXCEPT
                  !.msg = legacy_check(rec.username, rec.password)]
    ELSE IF method \notin {"POST", "GET"} THEN Raise(rec, "ValueError")
    ELSE [rec EXCEPT !.pc = "fetch_wait", !.events = Append(@, "fetch")]

\* fetch_token that sends whatever username and password it was given
fetch_token_begin_unvalidated(rec, code_arg, authorization_response, method) ==
    IF ~is_secure_transport(rec.url) THEN Raise(rec, "InsecureTransportError")
    ELSE IF ~Truthy(code_arg) /\ authorization_response # None
            /\ parse_request_uri_response(authorization_response) # "ok"
         THEN Raise(rec, parse_request_uri_response(authorization_response))
    ELSE IF code_missing(code_arg, authorization_response)
         THEN [Raise(rec, "ValueError") EXCEPT !.msg = MsgCode]
    ELSE IF method \notin {"POST", "GET"} THEN Raise(rec, "ValueError")
    ELSE [rec EXCEPT !.pc = "fetch_wait", !.events = Append(@, "fetch")]

\* fetch_token up to its network call (lines 258-371).  authorization_response is
\* None or the state the callback URL carries ("" when it carries none); the
\* callback always carries the code "c1".
fetch_token_begin(rec, code_arg, authorization_response, method) ==
    IF ~is_secure_transport(rec.url) THEN Raise(rec, "InsecureTransportError")
    ELSE IF ~Truthy(code_arg) /\ authorization_response # None
            /\ parse_request_uri_response(authorization_response) # "ok"
         THEN Raise(rec, parse_request_uri_response(authorization_response))
    ELSE IF code_missing(code_arg, authorization_response)
         THEN [Raise(rec, "ValueError") EXCEPT !.msg = MsgCode]
    ELSE IF legacy_check(rec.username, rec.password) # None
         THEN [Raise(rec, "ValueError") EXCEPT
                  !.msg = legacy_check(rec.username, rec.password)]
    ELSE IF method \notin {"POST", "GET"} THEN Raise(rec, "ValueError")
    ELSE [rec EXCEPT !.pc = "fetch_wait", !.events = Append(@, "fetch")]

\* the client's code after the callback URL was parsed (line 267)
fetch_token_code(url, code_arg, authorization_response) ==
    IF is_secure_transport(url) /\ ~Truthy(code_arg) /\ authorization_response # None
       /\ parse_request_uri_response(authorization_response) = "ok"
    THEN "c1" ELSE code

\* fetch_token that keeps the token it holds until the new one is parsed
fetch_token_keeps(url, code_arg, authorization_response, username, password) == FALSE

\* whether fetch_token got as far as clearing the token (line 351)
fetch_token_clears(url, code_arg, authorization_response, username, password) ==
    /\ is_secure_transport(url)
    /\ \/ Truthy(code_arg)
       \/ /\ authorization_response # None
          /\ parse_request_uri_response(authorization_response) = "ok"
       \/ /\ authorization_response = None
          /\ ~code_missing(code_arg, authorization_response)
    /\ legacy_check(username, password) = None

\* the auth argument of fetch_token and of the token request: none, the
\* caller's own auth object, or aiohttp.BasicAuth(login, password)
NoAuth == <<>>
ExplicitAuth == <<"auth">>
BasicAuth(login, password) == <<"Basic", login, password>>

\* include_client_id after lines 307-314; None, "True" or "False"
fetch_include_client_id(auth, include_client_id) ==
    IF auth # NoAuth /\ include_client_id = None THEN "False" ELSE include_client_id

\* client_id after lines 322-323
fetch_client_id(auth, include_client_id, client_id_arg) ==
    IF auth = NoAuth /\ include_client_id # "True" THEN client_id ELSE client_id_arg

\* client_secret after line 330
fetch_client_secret(auth, include_client_id, client_id_arg, client_secret) ==
    IF /\ auth = NoAuth
       /\ Truthy(fetch_client_id(auth, include_client_id, client_id_arg))
       /\ client_secret = None
    THEN "" ELSE client_secret

\* auth after lines 307-331: what the token request is sent with
fetch_auth(auth, include_client_id, client_id_arg, client_secret) ==
    IF auth = NoAuth /\ Truthy(fetch_client_id(auth, include_client_id, client_id_arg))
    THEN BasicAuth(fetch_client_id(auth, include_client_id, client_id_arg),
                   fetch_client_secret(auth, include_client_id, client_id_arg,
                                       client_secret))
    ELSE auth

\* kwargs["client_secret"] after lines 333-337: what goes into the request body
fetch_body_client_secret(auth, include_client_id, client_id_arg, client_secret) ==
    IF fetch_include_client_id(auth, include_client_id) = "True"
    THEN fetch_client_secret(auth, include_client_id, client_id_arg, client_secret)
    ELSE None

\* session.fetch_token(token_url, code=..., authorization_response=...,
\*                     method=..., username=..., password=..., auth=...,
\*                     include_client_id=..., client_id=..., client_secret=...)
FetchTokenAuth(t, url, code_arg, authorization_response, method, username, password, auth, include_client_id, client_id_arg, client_secret) ==
    /\ Free(t)
    /\ LET rec == fetch_token_begin(
                      [Call("fetch_token", url, FALSE) EXCEPT
                          !.echo = authorization_response # None /\ ~Truthy(code_arg)
                                   /\ auth_state # None
                                   /\ authorization_response = auth_state,
                          !.username = username, !.password = password,
                          !.auth = auth, !.include_client_id = include_client_id,
                          !.client_id = client_id_arg, !.client_secret = client_secret,
                          !.client_id0 = client_id],
                      code_arg, authorization_response, method) IN
       tasks' = [tasks EXCEPT ![t] =
          IF fetch_token_clears(url, code_arg, authorization_response,
                                username, password)
          THEN [rec EXCEPT
                  !.req_auth = fetch_auth(auth, include_client_id, client_id_arg,
                                          client_secret),
                  !.req_include_client_id =
                      fetch_include_client_id(auth, include_client_id),
                  !.req_client_secret =
                      fetch_body_client_secret(auth, include_client_id, client_id_arg,
                                               client_secret)]
          ELSE rec]
    /\ code' = fetch_token_code(url, code_arg, authorization_response)
    /\ token' = (IF fetch_token_clears(url, code_arg, authorization_response,
                                       username, password)
                 THEN EmptyToken ELSE token)
    /\ UNCHANGED <<config, _state, access_token, expires_at, now, auth_state>>

\* fetch_token called without auth, include_client_id, client_id, client_secret
FetchToken(t, url, code_arg, authorization_response, method, username, password) ==
    FetchTokenAuth(t, url, code_arg, authorization_response, method, username,
                   password, NoAuth, None, None, None)

\* the token response arrives and parses (lines 371-387)
FetchResponse(t, resp) ==
    /\ tasks[t].pc = "fetch_wait"
    /\ LET tok == parse_request_body_response(resp) IN
        /\ token' = tok
        /\ access_token' = populate_access_token(tok)
        /\ expires_at' = populate_expires_at(tok)
        /\ \E order \in Orders(compliance_hook["access_token_response"]) :
              tasks' = [tasks EXCEPT ![t] =
                  [@ EXCEPT !.pc = "done", !.ret = tok, !.resp = resp,
                            !.resp_hooks = _invoke_hooks(order, <<>>)]]
    /\ UNCHANGED <<config, _state, code, now, auth_state>>

\* the token request times out or fails, or its body does not parse
FetchFailure(t, e) ==
    /\ tasks[t].pc = "fetch_wait"
    /\ tasks' = [tasks EXCEPT ![t] = Raise(tasks[t], e)]
    /\ UNCHANGED <<config, _state, client, now, auth_state>>

\* --------------------------------------------------------------- accessors
\* the token setter (lines 143-148)
SetToken(tok) ==
    /\ token' = tok
    /\ access_token' = populate_access_token(tok)
    /\ expires_at' = populate_expires_at(tok)
    /\ UNCHANGED <<config, _state, code, now, auth_state, tasks>>

\* the access_token setter (lines 155-158)
SetAccessToken(v) ==
    /\ access_token' = v
    /\ UNCHANGED <<config, _state, token, expires_at, code, now, auth_state, tasks>>

\* the access_token deleter (lines 160-163)
DelAccessToken ==
    /\ access_token # Deleted
    /\ access_token' = Deleted
    /\ UNCHANGED <<config, _state, token, expires_at, code, now, auth_state, tasks>>

\* the access_token getter (lines 150-153)
get_access_token == IF access_token = Deleted THEN None ELSE access_token

\* the authorized property (lines 165-174)
authorized == Truthy(get_access_token)

\* the client_id setter (lines 128-131)
SetClientId(v) ==
    /\ client_id' = v
    /\ UNCHANGED <<auto_refresh_url, token_updater, state, compliance_hook, registered,
                   client_kind, constructed, _state, client, now, auth_state, tasks>>

\* ------------------------------------------------- register_compliance_hook
\* register_compliance_hook that opens a new hook point for an unknown name
RegisterComplianceHook_open(t, hook_type, h) ==
    /\ Free(t)
    /\ Len(registered) < MaxRegs
    /\ tasks' = [tasks EXCEPT ![t] =
          [Call("register_compliance_hook", "", FALSE) EXCEPT
              !.pc = "done", !.hook_arg = <<hook_type, h>>, !.hooks0 = compliance_hook]]
    /\ compliance_hook' =
          [x \in DOMAIN compliance_hook \cup {hook_type} |->
              IF x = hook_type
              THEN (IF x \in DOMAIN compliance_hook THEN compliance_hook[x] ELSE {})
                   \cup {h}
              ELSE compliance_hook[x]]
    /\ registered' = Append(registered, <<hook_type, h>>)
    /\ UNCHANGED <<auto_refresh_url, token_updater, state, client_kind, client_id,
                   constructed,
                   _state, client, now, auth_state>>

\* register_compliance_hook(hook_type, hook) (lines 548-563)
RegisterComplianceHook(t, hook_type, h) ==
    /\ Free(t)
    /\ Len(registered) < MaxRegs
    /\ LET rec == [Call("register_compliance_hook", "", FALSE) EXCEPT
                      !.hook_arg = <<hook_type, h>>, !.hooks0 = compliance_hook] IN
        IF hook_type \notin DOMAIN compliance_hook
        THEN /\ tasks' = [tasks EXCEPT ![t] = Raise(rec, "ValueError")]
             /\ UNCHANGED <<compliance_hook, registered>>
        ELSE /\ tasks' = [tasks EXCEPT ![t] = [rec EXCEPT !.pc = "done"]]
             /\ compliance_hook' = [compliance_hook EXCEPT ![hook_type] = @ \cup {h}]
             /\ registered' = Append(registered, <<hook_type, h>>)
    /\ UNCHANGED <<auto_refresh_url, token_updater, state, client_kind, client_id,
                   constructed,
                   _state, client, now, auth_state>>

\* ------------------------------------------------------- authorization_url
\* new_state (lines 113-121): calling a string raises TypeError
new_state(generated) == IF state = Callable THEN generated ELSE state

\* authorization_url(url, state=...) (lines 176-195); generated is what the
\* state generator returns if it is called
AuthorizationUrl(url, state_arg, generated) ==
    /\ _state' = (IF Truthy(state_arg) THEN _state ELSE new_state(generated))
    /\ auth_state' = (IF ~is_secure_transport(url) THEN auth_state
                      ELSE IF Truthy(state_arg) THEN state_arg
                      ELSE new_state(generated))
    /\ UNCHANGED <<config, client, now, tasks>>

\* ------------------------------------------------------------ construction
\* the tokens a session is constructed with, or is given by the token setter
InitTokens ==
    {EmptyToken, MkToken("a0", "r0", 0), MkToken("a0", "r0", 1), MkToken("a0", None, 1)}

\* the constructor without its assertion
construct_ok_unchecked(url, updater) == TRUE

\* the assertion of lines 102-103
construct_ok(url, updater) == updater => Truthy(url)

\* OAuth2Session.__init__ (lines 91-111), given the class of the client
ConstructClient(kind, url, updater, state_arg, tok, callers) ==
    /\ construct_ok(url, updater)
    /\ client_kind = kind
    /\ client_id = None
    /\ constructed = [url |-> url, updater |-> updater, err |-> None]
    /\ auto_refresh_url = url
    /\ token_updater = updater
    /\ state = (IF Truthy(state_arg) THEN state_arg ELSE Callable)
    /\ _state = state_arg
    /\ token = tok
    /\ access_token = Get(tok, "access_token")
    /\ expires_at = (IF "expires_at" \in DOMAIN tok THEN tok["expires_at"] ELSE 0)
    /\ code = None
    /\ now = 1
    /\ auth_state = None
    /\ tasks = [t \in callers |-> IdleTask]
    /\ compliance_hook = [h \in HookTypes |-> {}]
    /\ registered = <<>>

\* OAuth2Session.__init__ with the default client (line 92)
Construct(url, updater, state_arg, tok, callers) ==
    ConstructClient("WebApplicationClient", url, updater, state_arg, tok, callers)

\* OAuth2Session.__init__ when the assertion fails: the attributes assigned
\* before it (lines 92-100) are set, compliance_hook is not, no session is
\* returned and nobody can call it
ConstructFails(url, updater, tok) ==
    /\ ~construct_ok(url, updater)
    /\ client_kind = "WebApplicationClient"
    /\ client_id = None
    /\ constructed = [url |-> url, updater |-> updater, err |-> "AssertionError"]
    /\ auto_refresh_url = url
    /\ token_updater = updater
    /\ state = Callable
    /\ _state = None
    /\ token = tok
    /\ access_token = Get(tok, "access_token")
    /\ expires_at = (IF "expires_at" \in DOMAIN tok THEN tok["expires_at"] ELSE 0)
    /\ code = None
    /\ now = 1
    /\ auth_state = None
    /\ tasks = [t \in {} |-> IdleTask]
    /\ compliance_hook = [h \in {} |-> {}]
    /\ registered = <<>>

\* one caller, every auto-refresh configuration
Init ==
    \E url \in Urls, updater \in BOOLEAN, tok \in InitTokens :
        Construct(url, updater, None, tok, {"t1"})

Next ==
    \/ \E t \in DOMAIN tasks, url \in Urls \ {""}, w \in BOOLEAN : Request(t, url, w)
    \/ \E t \in DOMAIN tasks, url \in Urls, rt \in {None} \cup RefreshTokens :
          RefreshToken(t, url, rt)
    \/ \E t \in DOMAIN tasks, resp \in TokenResponses : RefreshResponse(t, resp)
    \/ \E t \in DOMAIN tasks, e \in Failures \cup {"OAuth2Error"} : RefreshFailure(t, e)
    \/ \E t \in DOMAIN tasks : UpdaterReturn(t)
    \/ \E t \in DOMAIN tasks : UpdaterFailure(t)
    \/ \E t \in DOMAIN tasks, e \in {None} \cup Failures : TransportReturn(t, e)
    \/ \E t \in DOMAIN tasks, url \in Urls \ {""}, c \in {None, "c1"},
          ar \in {None, ""}, m \in {"POST", "GET", "PUT"} : FetchToken(t, url, c, ar, m, None, None)
    \/ \E t \in DOMAIN tasks, resp \in TokenResponses : FetchResponse(t, resp)
    \/ \E t \in DOMAIN tasks, e \in Failures \cup {"OAuth2Error"} : FetchFailure(t, e)
    \/ Tick

Spec == Init /\ [][Next]_vars

\* two concurrent callers of request on a session with a refresh endpoint
InitConc ==
    \E updater \in BOOLEAN :
        Construct("https://", updater, None, MkToken("a0", "r0", 1), {"t1", "t2"})

NextConc ==
    \/ \E t \in DOMAIN tasks : Request(t, "https://", FALSE)
    \/ \E t \in DOMAIN tasks, resp \in TokenResponses : RefreshResponse(t, resp)
    \/ \E t \in DOMAIN tasks, e \in Failures \cup {"OAuth2Error"} : RefreshFailure(t, e)
    \/ \E t \in DOMAIN tasks : UpdaterReturn(t)
    \/ \E t \in DOMAIN tasks : UpdaterFailure(t)
    \/ \E t \in DOMAIN tasks, e \in {None} \cup Failures : TransportReturn(t, e)
    \/ Tick

SpecConc == InitConc /\ [][NextConc]_vars

\* the accessors and the two token exchanges, one caller
InitAcc ==
    \E tok \in InitTokens : Construct("", FALSE, None, tok, {"t1"})

NextAcc ==
    \/ \E tok \in InitTokens : SetToken(tok)
    \/ \E v \in {None, "", "a1"} : SetAccessToken(v)
    \/ DelAccessToken
    \/ \E t \in DOMAIN tasks, rt \in {None} \cup RefreshTokens :
          RefreshToken(t, "https://", rt)
    \/ \E t \in DOMAIN tasks, resp \in TokenResponses : RefreshResponse(t, resp)
    \/ \E t \in DOMAIN tasks, e \in Failures \cup {"OAuth2Error"} : RefreshFailure(t, e)
    \/ \E t \in DOMAIN tasks : FetchToken(t, "https://", "c1", None, "POST", None, None)
    \/ \E t \in DOMAIN tasks, resp \in TokenResponses : FetchResponse(t, resp)
    \/ \E t \in DOMAIN tasks, e \in Failures \cup {"OAuth2Error"} : FetchFailure(t, e)

SpecAcc == InitAcc /\ [][NextAcc]_vars

\* the authorization round trip: every constructor state, every explicit state
InitAuth ==
    \E state_arg \in {None, "s1", Callable} :
        Construct("", FALSE, state_arg, EmptyToken, {"t1"})

NextAuth ==
    \/ \E url \in Urls \ {""}, s \in {None} \cup StateStrings, g \in StateStrings :
          AuthorizationUrl(url, s, g)
    \/ \E t \in DOMAIN tasks, c \in {None, "c1"}, ar \in {None, ""} \cup StateStrings :
          FetchToken(t, "https://", c, ar, "POST", None, None)
    \/ \E t \in DOMAIN tasks, resp \in TokenResponses : FetchResponse(t, resp)
    \/ \E t \in DOMAIN tasks, e \in Failures \cup {"OAuth2Error"} : FetchFailure(t, e)

SpecAuth == InitAuth /\ [][NextAuth]_vars

\* hooks registered on a session whose requests may find the token expired
InitHooks ==
    \E tok \in {EmptyToken, MkToken("a0", "r0", 1)} :
        Construct("https://", FALSE, None, tok, {"t1"})

NextHooks ==
    \/ \E t \in DOMAIN tasks, ht \in HookTypes \cup {"no_such_hook"}, h \in Hooks :
          RegisterComplianceHook(t, ht, h)
    \/ \E t \in DOMAIN tasks, w \in BOOLEAN : Request(t, "https://", w)
    \/ \E t \in DOMAIN tasks : RefreshToken(t, "https://", None)
    \/ \E t \in DOMAIN tasks, resp \in TokenResponses : RefreshResponse(t, resp)
    \/ \E t \in DOMAIN tasks, e \in Failures \cup {"OAuth2Error"} : RefreshFailure(t, e)
    \/ \E t \in DOMAIN tasks, e \in {None} \cup Failures : TransportReturn(t, e)
    \/ Tick

SpecHooks == InitHooks /\ [][NextHooks]_vars

\* a session of the password grant: client=LegacyApplicationClient(client_id)
InitLegacy ==
    \E tok \in {EmptyToken, MkToken("a0", "r0", 1)} :
        ConstructClient("LegacyApplicationClient", "", FALSE, None, tok, {"t1"})

NextLegacy ==
    \/ \E t \in DOMAIN tasks, url \in Urls \ {""}, c \in {None, "c1"},
          username \in {None, "", "u1"}, password \in {None, "", "p1"} :
          FetchToken(t, url, c, None, "POST", username, password)
    \/ \E t \in DOMAIN tasks, resp \in TokenResponses : FetchResponse(t, resp)
    \/ \E t \in DOMAIN tasks, e \in Failures \cup {"OAuth2Error"} : FetchFailure(t, e)
    \/ \E t \in DOMAIN tasks : Request(t, "https://", FALSE)
    \/ \E t \in DOMAIN tasks, e \in {None} \cup Failures : TransportReturn(t, e)
    \/ Tick

SpecLegacy == InitLegacy /\ [][NextLegacy]_vars

\* every call of the constructor, the failing ones included, and the requests
\* made on the sessions it returns
InitCtor ==
    \E url \in Urls, updater \in BOOLEAN, tok \in InitTokens :
        \/ Construct(url, updater, None, tok, {"t1"})
        \/ ConstructFails(url, updater, tok)

NextCtor ==
    \/ \E t \in DOMAIN tasks, w \in BOOLEAN : Request(t, "https://", w)
    \/ \E t \in DOMAIN tasks, resp \in TokenResponses : RefreshResponse(t, resp)
    \/ \E t \in DOMAIN tasks, e \in Failures \cup {"OAuth2Error"} : RefreshFailure(t, e)
    \/ \E t \in DOMAIN tasks : UpdaterReturn(t)
    \/ \E t \in DOMAIN tasks : UpdaterFailure(t)
    \/ \E t \in DOMAIN tasks, e \in {None} \cup Failures : TransportReturn(t, e)
    \/ Tick

SpecCtor == InitCtor /\ [][NextCtor]_vars

\* the client ids and secrets the auth decision of fetch_token is tried with
ClientIds == {None, "", "id1", "id2"}
ClientSecrets == {None, "", "s1"}

\* fetch_token with every combination of auth, include_client_id, client_id and
\* client_secret, on a session with and without a client id
InitFetchAuth == Construct("", FALSE, None, EmptyToken, {"t1"})

NextFetchAuth ==
    \/ \E v \in ClientIds \ {"id2"} : SetClientId(v)
    \/ \E t \in DOMAIN tasks, auth \in {NoAuth, ExplicitAuth},
          include_client_id \in {None, "True", "False"},
          client_id_arg \in ClientIds \ {"id1"}, client_secret \in ClientSecrets :
          FetchTokenAuth(t, "https://", "c1", None, "POST", None, None,
                         auth, include_client_id, client_id_arg, client_secret)
    \/ \E t \in DOMAIN tasks, resp \in TokenResponses : FetchResponse(t, resp)
    \/ \E t \in DOMAIN tasks, e \in Failures : FetchFailure(t, e)

SpecFetchAuth == InitFetchAuth /\ [][NextFetchAuth]_vars

\* one caller exchanges the code for a token while the other registers hooks and
\* sends requests
InitWindow ==
    \E tok \in {EmptyToken, MkToken("a0", "r0", 0)} :
        Construct("", FALSE, None, tok, {"t1", "t2"})

NextWindow ==
    \/ FetchToken("t1", "https://", "c1", None, "POST", None, None)
    \/ \E resp \in TokenResponses : FetchResponse("t1", resp)
    \/ \E e \in Failures \cup {"OAuth2Error"} : FetchFailure("t1", e)
    \/ \E h \in Hooks : RegisterComplianceHook("t2", "protected_request", h)
    \/ \E w \in BOOLEAN : Request("t2", "https://", w)
    \/ \E e \in {None} \cup Failures : TransportReturn("t2", e)

SpecWindow == InitWindow /\ [][NextWindow]_vars

\* ------------------------------------------------------------------ claims
Range(s) == {s[i] : i \in 1..Len(s)}
IsPrefix(s, f) == Len(s) <= Len(f) /\ \A i \in 1..Len(s) : s[i] = f[i]
FullRetry == <<"refresh", "updater", "updated", "forward">>
Expired == expires_at # 0 /\ expires_at < now

\* C1: of two request calls in flight at once that both saw the token expired,
\* at most one has issued a refresh call.
C1_SingleFlight ==
    \A t1, t2 \in DOMAIN tasks :
        (/\ t1 # t2
         /\ tasks[t1].op = "request" /\ tasks[t2].op = "request"
         /\ tasks[t1].pc \notin {"idle", "done"} /\ tasks[t2].pc \notin {"idle", "done"}
         /\ tasks[t1].expired /\ tasks[t2].expired)
        => ~("refresh" \in Range(tasks[t1].events) /\ "refresh" \in Range(tasks[t2].events))

\* C2 as claimed: once the refresh succeeded and the token_updater completed, the
\* request has made one refresh call, one updater call and one forward, in that order.
C2_ExactlyOneForward ==
    \A t \in DOMAIN tasks :
        (/\ tasks[t].op = "request" /\ tasks[t].expired /\ token_updater
         /\ tasks[t].pc \in {"transport", "done"}
         /\ "updated" \in Range(tasks[t].events))
        => tasks[t].events = FullRetry

\* C2 as amended: an expired-token request with a token_updater makes one refresh
\* call, then one updater call with the new token, and forwards only after the
\* updater completed, once and with the new token; it forwards nothing when
\* attaching the token again raises TokenExpiredError, and ends with that error.
C2_RetryOrder ==
    \A t \in DOMAIN tasks :
        (tasks[t].op = "request" /\ tasks[t].expired /\ token_updater) =>
            /\ IsPrefix(tasks[t].events, FullRetry)
            /\ tasks[t].pc = "updater_wait" =>
                  /\ tasks[t].events = <<"refresh", "updater">>
                  /\ tasks[t].ret = token
            /\ tasks[t].pc = "transport" => tasks[t].events = FullRetry
            /\ tasks[t].events = FullRetry =>
                  tasks[t].attached = Get(tasks[t].ret, "access_token")
            /\ (tasks[t].pc = "done" /\ "updated" \in Range(tasks[t].events)
                /\ tasks[t].events # FullRetry) =>
                  tasks[t].err = "TokenExpiredError"

C2_Witness ==
    \E t \in DOMAIN tasks :
        /\ tasks[t].op = "request" /\ tasks[t].expired /\ token_updater
        /\ tasks[t].events = FullRetry

\* C3: with a refresh endpoint and no token_updater, an expired-token request never
\* forwards the original request and never calls an updater; once its refresh
\* succeeded it has failed with TokenUpdated carrying the token the session holds,
\* and the refresh call is the only call it made.
C3_TokenUpdatedNoRetry ==
    \A t \in DOMAIN tasks :
        (/\ tasks[t].op = "request" /\ tasks[t].expired
         /\ Truthy(auto_refresh_url) /\ ~token_updater) =>
            /\ "forward" \notin Range(tasks[t].events)
            /\ "updater" \notin Range(tasks[t].events)
            /\ tasks[t].resp # EmptyToken =>
                  /\ tasks[t].pc = "done"
                  /\ tasks[t].err = "TokenUpdated"
                  /\ tasks[t].events = <<"refresh">>
                  /\ tasks[t].ret = token
                  /\ Get(tasks[t].ret, "access_token") = tasks[t].resp["access_token"]
            /\ tasks[t].err = "TokenUpdated" => tasks[t].resp # EmptyToken

C3_Witness ==
    \E t \in DOMAIN tasks :
        /\ tasks[t].op = "request" /\ tasks[t].expired /\ ~token_updater
        /\ tasks[t].err = "TokenUpdated"

\* C4: without a refresh endpoint an expired-token request has failed with
\* TokenExpiredError, has invoked the transport for nothing (no refresh call, no
\* forward) and has left the token as it was.
C4_ExpiredWithoutRefreshUrl ==
    \A t \in DOMAIN tasks :
        (tasks[t].op = "request" /\ tasks[t].expired /\ ~Truthy(auto_refresh_url)) =>
            /\ tasks[t].pc = "done"
            /\ tasks[t].err = "TokenExpiredError"
            /\ tasks[t].events = <<>>
            /\ token = tasks[t].tok0

C4_Witness ==
    \E t \in DOMAIN tasks :
        /\ tasks[t].op = "request" /\ tasks[t].expired /\ ~Truthy(auto_refresh_url)
        /\ NonEmpty(token)

\* C5: fetch_token, refresh_token and request given an insecure (http) URL have
\* failed with InsecureTransportError without invoking the transport.
C5_InsecureRejected ==
    \A t \in DOMAIN tasks :
        tasks[t].url = "http://" =>
            /\ tasks[t].op \in {"fetch_token", "refresh_token", "request"}
            /\ tasks[t].pc = "done"
            /\ tasks[t].err = "InsecureTransportError"
            /\ tasks[t].events = <<>>

C5_Witness ==
    \E t \in DOMAIN tasks :
        /\ tasks[t].op = "request" /\ tasks[t].url = "http://"
        /\ NonEmpty(token) /\ Expired /\ is_secure_transport(auto_refresh_url)

\* C6: authorized is true when the token is non-empty with a non-empty
\* access_token, and false when the token is empty.
C6_AuthorizedTracksToken ==
    /\ (NonEmpty(token) /\ Truthy(Get(token, "access_token"))) => authorized
    /\ ~NonEmpty(token) => ~authorized

\* C7: a fetch_token whose authorization_response echoes the state that
\* authorization_url last returned does not fail with a state mismatch.
C7_EchoedStateAccepted ==
    \A t \in DOMAIN tasks :
        tasks[t].echo => tasks[t].err # "MismatchingStateError"

\* C8 as claimed: after an operation whose network call timed out the token is the
\* one held before the operation was called.
C8_TimeoutLeavesToken ==
    \A t \in DOMAIN tasks :
        tasks[t].err = "TimeoutError" => token = tasks[t].tok0

\* C8 as amended: a timed-out refresh_token, or request whose refresh call or
\* unrefreshed forward timed out, leaves the token held before the call; a timed-out
\* fetch_token leaves the empty token it cleared to; a request whose forward timed
\* out after its auto-refresh leaves the refreshed token.
C8_TimeoutNoMutation ==
    \A t \in DOMAIN tasks :
        tasks[t].err = "TimeoutError" =>
            /\ tasks[t].pc = "done"
            /\ tasks[t].op = "fetch_token" => token = EmptyToken
            /\ tasks[t].op = "refresh_token" => token = tasks[t].tok0
            /\ tasks[t].op = "request" =>
                  token = (IF tasks[t].resp # EmptyToken THEN tasks[t].ret
                           ELSE tasks[t].tok0)

C8_Witness ==
    \E t \in DOMAIN tasks :
        /\ tasks[t].err = "TimeoutError"
        /\ tasks[t].op = "fetch_token"
        /\ NonEmpty(tasks[t].tok0)

\* C9: the token stored and returned by a successful refresh has the response's
\* refresh_token when the response has one, and otherwise the value used for the
\* call: the argument, or the prior token's refresh_token when there is none.
C9_RefreshTokenKept ==
    \A t \in DOMAIN tasks :
        (tasks[t].op = "refresh_token" /\ tasks[t].pc = "done" /\ tasks[t].err = None) =>
            /\ tasks[t].ret = token
            /\ Get(tasks[t].ret, "access_token") = tasks[t].resp["access_token"]
            /\ Get(tasks[t].ret, "refresh_token") =
                  (IF "refresh_token" \in DOMAIN tasks[t].resp
                   THEN tasks[t].resp["refresh_token"]
                   ELSE IF tasks[t].arg_rt # None THEN tasks[t].arg_rt
                   ELSE Get(tasks[t].tok0, "refresh_token"))

C9_Witness ==
    \E t \in DOMAIN tasks :
        /\ tasks[t].op = "refresh_token" /\ tasks[t].pc = "done" /\ tasks[t].err = None
        /\ "refresh_token" \notin DOMAIN tasks[t].resp
        /\ tasks[t].arg_rt = None
        /\ Get(tasks[t].tok0, "refresh_token") = "r0"

\* C10 as claimed: with a token_updater, every successful refresh, automatic or
\* called directly, is followed by a call of the updater.
C10_UpdaterAfterEveryRefresh ==
    \A t \in DOMAIN tasks :
        (/\ token_updater /\ tasks[t].op \in {"request", "refresh_token"}
         /\ tasks[t].resp # EmptyToken)
        => "updater" \in Range(tasks[t].events)

\* C10 as amended: with a token_updater, a successful refresh triggered by an
\* expired-token request is followed at once by a call of the updater with the
\* new token; a refresh_token called directly does not call the updater.
C10_UpdaterAfterAutoRefresh ==
    \A t \in DOMAIN tasks :
        (token_updater /\ tasks[t].resp # EmptyToken) =>
            /\ tasks[t].op = "request" =>
                  /\ Len(tasks[t].events) >= 2
                  /\ tasks[t].events[1] = "refresh"
                  /\ tasks[t].events[2] = "updater"
                  /\ Get(tasks[t].ret, "access_token") = tasks[t].resp["access_token"]
            /\ tasks[t].op = "refresh_token" => "updater" \notin Range(tasks[t].events)

C10_Witness ==
    \E t \in DOMAIN tasks :
        /\ token_updater /\ tasks[t].op = "request"
        /\ tasks[t].pc = "updater_wait"

\* C11: the hook points are always exactly the three fixed names; a registration
\* under another name has failed with ValueError and left the registry as it was,
\* and one under a valid name has added the hook to that hook point only.
C11_HookPointsFixed ==
    /\ DOMAIN compliance_hook = HookTypes
    /\ \A t \in DOMAIN tasks :
        tasks[t].op = "register_compliance_hook" =>
            LET ht == tasks[t].hook_arg[1]
                h == tasks[t].hook_arg[2] IN
            IF ht \in HookTypes
            THEN /\ tasks[t].err = None
                 /\ compliance_hook[ht] = tasks[t].hooks0[ht] \cup {h}
                 /\ \A o \in HookTypes \ {ht} : compliance_hook[o] = tasks[t].hooks0[o]
            ELSE /\ tasks[t].err = "ValueError"
                 /\ compliance_hook = tasks[t].hooks0

C11_Witness ==
    \E t \in DOMAIN tasks :
        /\ tasks[t].op = "register_compliance_hook"
        /\ tasks[t].err = "ValueError"
        /\ tasks[t].hooks0["protected_request"] # {}

\* the positions of hook h in the output of a chain
Positions(out, h) == {i \in 1..Len(out) : out[i] = h}

\* the request ran the protected_request hooks
RanHooks(rec) ==
    /\ rec.op = "request" /\ is_secure_transport(rec.url)
    /\ NonEmpty(rec.tok0) /\ ~rec.withhold

\* C12: a hook chain's output carries the marker of every hook registered on the
\* hook point exactly once and nothing else (each hook got the previous hook's
\* output); with no hook registered it is the input unchanged.
C12_HookChainComposes ==
    \A t \in DOMAIN tasks :
        /\ RanHooks(tasks[t]) =>
              /\ Len(tasks[t].body) = Cardinality(compliance_hook["protected_request"])
              /\ \A h \in compliance_hook["protected_request"] :
                    Cardinality(Positions(tasks[t].body, h)) = 1
        /\ (tasks[t].op = "request" /\ tasks[t].resp # EmptyToken) =>
              /\ Len(tasks[t].resp_hooks)
                    = Cardinality(compliance_hook["refresh_token_response"])
              /\ \A h \in compliance_hook["refresh_token_response"] :
                    Cardinality(Positions(tasks[t].resp_hooks, h)) = 1

C12_Witness ==
    \E t \in DOMAIN tasks :
        /\ RanHooks(tasks[t])
        /\ "h1" \in Range(tasks[t].body) /\ "h2" \in Range(tasks[t].body)

\* the place of the first registration of hook h on hook point ht
FirstRegistered(ht, h) ==
    CHOOSE i \in 1..Len(registered) :
        /\ registered[i] = <<ht, h>>
        /\ \A j \in 1..(i - 1) : registered[j] # <<ht, h>>

\* C13 as claimed: the protected_request hooks are called in the order in which
\* they were registered.
C13_RegistrationOrder ==
    \A t \in DOMAIN tasks :
        RanHooks(tasks[t]) =>
            \A i, j \in 1..Len(tasks[t].body) :
                i < j => FirstRegistered("protected_request", tasks[t].body[i])
                         < FirstRegistered("protected_request", tasks[t].body[j])

\* C13 as amended: if f was registered before g on protected_request, every
\* invocation calls both f and g, each once and one after the other, in either
\* order.
C13_BothCalledAnyOrder ==
    \A t \in DOMAIN tasks :
        RanHooks(tasks[t]) =>
            \A i, j \in 1..Len(registered) :
                (/\ i < j
                 /\ registered[i][1] = "protected_request"
                 /\ registered[j][1] = "protected_request"
                 /\ registered[i][2] # registered[j][2]) =>
                    \E p, q \in 1..Len(tasks[t].body) :
                        /\ p # q
                        /\ Positions(tasks[t].body, registered[i][2]) = {p}
                        /\ Positions(tasks[t].body, registered[j][2]) = {q}

C13_Witness ==
    \E t \in DOMAIN tasks :
        /\ RanHooks(tasks[t])
        /\ registered = <<(<<"protected_request", "h1">>), (<<"protected_request", "h2">>)>>
        /\ tasks[t].body = <<"h1", "h2">>

\* C14: on a password-grant session fetch_token without a username fails with
\* ValueError, with a username but no password it fails with ValueError and a
\* different message, and in both cases no token request is sent and the token is
\* the one held before the call; with both given and a token response parsed, the
\* token returned carries the response's access_token and the session is
\* authorized.
C14_LegacyPreconditions ==
    \A t \in DOMAIN tasks :
        (tasks[t].op = "fetch_token" /\ is_secure_transport(tasks[t].url)) =>
            /\ tasks[t].username = None =>
                  /\ tasks[t].pc = "done" /\ tasks[t].err = "ValueError"
                  /\ tasks[t].msg = MsgBoth
                  /\ tasks[t].events = <<>> /\ token = tasks[t].tok0
            /\ (tasks[t].username # None /\ tasks[t].password = None) =>
                  /\ tasks[t].pc = "done" /\ tasks[t].err = "ValueError"
                  /\ tasks[t].msg = MsgPassword /\ MsgPassword # MsgBoth
                  /\ tasks[t].events = <<>> /\ token = tasks[t].tok0
            /\ (/\ tasks[t].username # None /\ tasks[t].password # None
                /\ tasks[t].resp # EmptyToken) =>
                  /\ tasks[t].pc = "done" /\ tasks[t].err = None
                  /\ Get(tasks[t].ret, "access_token") = tasks[t].resp["access_token"]
                  /\ authorized

C14_Witness ==
    \E t \in DOMAIN tasks :
        /\ tasks[t].op = "fetch_token" /\ is_secure_transport(tasks[t].url)
        /\ tasks[t].username = "u1" /\ tasks[t].password = None
        /\ tasks[t].err = "ValueError"
        /\ NonEmpty(tasks[t].tok0)

\* C15: a constructor call with a token updater and no auto-refresh URL has
\* failed and returned no session, and every session that was returned has an
\* auto-refresh URL if it has a token updater.
C15_UpdaterNeedsRefreshUrl ==
    /\ constructed.err = None => (token_updater => Truthy(auto_refresh_url))
    /\ (constructed.updater /\ ~Truthy(constructed.url)) =>
          /\ constructed.err = "AssertionError"
          /\ DOMAIN tasks = {}

C15_Witness ==
    /\ constructed.err = "AssertionError"
    /\ constructed.updater /\ constructed.url = ""

\* C16: one request call makes at most one refresh call and forwards the request
\* at most once; once the token was attached again after the refresh, either the
\* request was forwarded or the call has ended with TokenExpiredError after its
\* single refresh, nothing forwarded.
C16_NoRetryLoop ==
    \A t \in DOMAIN tasks :
        tasks[t].op = "request" =>
            /\ Cardinality(Positions(tasks[t].events, "refresh")) <= 1
            /\ Cardinality(Positions(tasks[t].events, "forward")) <= 1
            /\ ("updated" \in Range(tasks[t].events)
                /\ "forward" \notin Range(tasks[t].events)) =>
                  /\ tasks[t].pc = "done"
                  /\ tasks[t].err = "TokenExpiredError"
                  /\ tasks[t].events = <<"refresh", "updater", "updated">>

C16_Witness ==
    \E t \in DOMAIN tasks :
        /\ tasks[t].op = "request" /\ tasks[t].pc = "done"
        /\ tasks[t].err = "TokenExpiredError"
        /\ tasks[t].events = <<"refresh", "updater", "updated">>

\* C17: the call refresh_token sends goes through _request with the token
\* withheld: for that call no protected_request hook has run, no token was
\* attached, it did not end in TokenExpiredError or in a refresh of its own, and
\* one call never has more than one refresh_token nested in it.
C17_RefreshWithheld ==
    \A t \in DOMAIN tasks :
        /\ tasks[t].depth <= 1
        /\ tasks[t].err # "RecursionError"
        /\ tasks[t].inner_body = <<>>
        /\ tasks[t].inner_attached = None
        /\ tasks[t].depth = 1 =>
              /\ "refresh" \in Range(tasks[t].events)
              /\ tasks[t].err # "TokenExpiredError"

C17_Witness ==
    \E t \in DOMAIN tasks :
        /\ tasks[t].op = "request" /\ tasks[t].expired
        /\ tasks[t].pc = "refresh_wait"
        /\ tasks[t].depth = 1
        /\ Len(tasks[t].body) = 2
        /\ Expired

\* C18: while fetch_token waits for its token request the token is empty, and
\* when that request has failed or its response did not parse the token is empty
\* and the session does not report authorized.
C18_FailedFetchUnauthorized ==
    \A t \in DOMAIN tasks :
        tasks[t].op = "fetch_token" =>
            /\ tasks[t].pc = "fetch_wait" => token = EmptyToken
            /\ (/\ tasks[t].pc = "done"
                /\ "fetch" \in Range(tasks[t].events)
                /\ tasks[t].err # None) =>
                  /\ token = EmptyToken
                  /\ ~authorized

\* C19: a request to a secure URL made with an empty token, or with the token
\* withheld, is forwarded once as it was given: no protected_request hook ran,
\* no token was attached, no refresh was started and the token is the one held
\* at the call.  A request made with a token, not withheld, has run every
\* protected_request hook whether or not the token could then be attached.
C19_WithheldForwardedUnmodified ==
    \A t \in DOMAIN tasks :
        (tasks[t].op = "request" /\ is_secure_transport(tasks[t].url)) =>
            IF ~NonEmpty(tasks[t].tok0) \/ tasks[t].withhold
            THEN /\ tasks[t].events = <<"forward">>
                 /\ tasks[t].body = <<>>
                 /\ tasks[t].attached = None
                 /\ ~tasks[t].expired /\ tasks[t].depth = 0
                 /\ tasks[t].err \in {None} \cup Failures
                 /\ token = tasks[t].tok0
            ELSE /\ Range(tasks[t].body) = compliance_hook["protected_request"]
                 /\ tasks[t].attached # None => tasks[t].events[Len(tasks[t].events)] = "forward"

C19_Witness ==
    \E t \in DOMAIN tasks :
        /\ tasks[t].op = "request" /\ tasks[t].withhold
        /\ NonEmpty(tasks[t].tok0) /\ Expired
        /\ compliance_hook["protected_request"] = Hooks
        /\ tasks[t].events = <<"forward">>

\* the step in which the refresh call of t completes with a token response
RefreshCompletes(t) ==
    /\ tasks[t].pc = "refresh_wait"
    /\ tasks'[t].pc # "refresh_wait"
    /\ tasks'[t].resp # EmptyToken

\* C20: every refresh that completes replaces the token by the one parsed from
\* its own response, whatever another call stored before, and nothing else
\* replaces the token, so the token held is the one of the refresh that completed
\* last; a request attaching the token again after its token_updater attaches the
\* token held at that moment.
C20_LastRefreshWins ==
    [][/\ \A t \in DOMAIN tasks :
            /\ RefreshCompletes(t) =>
                  /\ token' = tasks'[t].ret
                  /\ token'["access_token"] = tasks'[t].resp["access_token"]
                  /\ access_token' = tasks'[t].resp["access_token"]
            /\ (tasks[t].pc = "updater_wait" /\ tasks'[t].pc = "transport") =>
                  tasks'[t].attached = token["access_token"]
       /\ token' # token => \E t \in DOMAIN tasks : RefreshCompletes(t)]_vars

\* both callers saw the token expired and refreshed; t2's refresh completed last
\* and t1 then sent its request with t2's token
C20_Witness ==
    /\ tasks["t1"].expired /\ tasks["t2"].expired
    /\ tasks["t1"].resp # EmptyToken /\ tasks["t2"].resp # EmptyToken
    /\ tasks["t1"].ret["access_token"] # tasks["t2"].ret["access_token"]
    /\ token = tasks["t2"].ret
    /\ tasks["t1"].pc = "transport"
    /\ tasks["t1"].attached = tasks["t2"].ret["access_token"]

\* C21: for a fetch_token that got as far as its token request: an explicit auth
\* is sent unchanged and include_client_id, when unset, counts as false; without
\* an explicit auth a Basic auth of the session's client id and the client secret
\* (None sent as "") is sent exactly when include_client_id is not forced true
\* and the session has a client id; client_secret is in the request body exactly
\* when include_client_id is true and the caller's client_secret is not None.
C21_AuthDecision ==
    \A t \in DOMAIN tasks :
        (tasks[t].op = "fetch_token" /\ "fetch" \in Range(tasks[t].events)) =>
            LET r == tasks[t] IN
            /\ r.auth # NoAuth =>
                  /\ r.req_auth = r.auth
                  /\ r.req_include_client_id
                        = (IF r.include_client_id = None THEN "False"
                           ELSE r.include_client_id)
            /\ r.auth = NoAuth =>
                  IF r.include_client_id # "True" /\ Truthy(r.client_id0)
                  THEN r.req_auth = BasicAuth(r.client_id0,
                                              IF r.client_secret = None THEN ""
                                              ELSE r.client_secret)
                  ELSE r.req_auth = NoAuth
            /\ r.req_client_secret # None
                  <=> (r.req_include_client_id = "True" /\ r.client_secret # None)
            /\ r.req_client_secret # None => r.req_client_secret = r.client_secret

\* C22: a request call that found the token expired and has ended without a
\* refresh response being parsed has ended with an error (the refresh's own error
\* when a refresh was started), the token is the one held before the call, the
\* token_updater was not called and the request was not forwarded.
C22_FailedRefreshNotApplied ==
    \A t \in DOMAIN tasks :
        (/\ tasks[t].op = "request" /\ tasks[t].expired
         /\ tasks[t].pc = "done" /\ tasks[t].resp = EmptyToken) =>
            /\ tasks[t].err
                  \in (IF ~Truthy(auto_refresh_url) THEN {"TokenExpiredError"}
                       ELSE IF "refresh" \in Range(tasks[t].events)
                            THEN Failures \cup {"OAuth2Error"}
                       ELSE {"InsecureTransportError"})
            /\ token = tasks[t].tok0
            /\ "updater" \notin Range(tasks[t].events)
            /\ "forward" \notin Range(tasks[t].events)

C22_Witness ==
    \E t \in DOMAIN tasks :
        /\ tasks[t].op = "request" /\ tasks[t].expired /\ tasks[t].pc = "done"
        /\ tasks[t].events = <<"refresh">>
        /\ tasks[t].err = "OAuth2Error"
        /\ token_updater /\ NonEmpty(token)

\* the step in which t calls request
RequestCalled(t) ==
    /\ Free(t)
    /\ tasks'[t] # tasks[t]
    /\ tasks'[t].op = "request"

\* C23: while a fetch_token call waits for its token request the token is empty,
\* and a request another caller makes in that time without withhold_token is
\* forwarded at once with no token attached and no protected_request hook run,
\* whatever token was held before fetch_token was called.
C23_UnauthenticatedWindow ==
    [][\A u \in DOMAIN tasks :
          (tasks[u].op = "fetch_token" /\ tasks[u].pc = "fetch_wait") =>
              /\ token = EmptyToken
              /\ \A t \in DOMAIN tasks \ {u} :
                    (RequestCalled(t) /\ ~tasks'[t].withhold) =>
                        /\ tasks'[t].pc = "transport"
                        /\ tasks'[t].events = <<"forward">>
                        /\ tasks'[t].attached = None
                        /\ tasks'[t].body = <<>>]_vars

C23_Witness ==
    /\ tasks["t1"].op = "fetch_token" /\ tasks["t1"].pc = "fetch_wait"
    /\ NonEmpty(tasks["t1"].tok0)
    /\ compliance_hook["protected_request"] = Hooks
    /\ tasks["t2"].op = "request" /\ ~tasks["t2"].withhold
    /\ tasks["t2"].tok0 = EmptyToken
    /\ tasks["t2"].pc = "transport" /\ tasks["t2"].attached = None

====
